---- MODULE Spec2Model ----
(***************************************************************************)
(* theboardroom: the participant registry (ParticipantManager), the        *)
(* per-participant visual state machine (ParticipantStateMachine), the     *)
(* participant factory, the metrics of the HUD (HUDController), the        *)
(* meeting state of the scene, and the Bloodbank event source that drives  *)
(* them.                                                                   *)
(*                                                                         *)
(* A JavaScript Map is modelled by the sequence of its values in insertion *)
(* order (participants) or by a function on its keys (stateMachines).      *)
(* An optional argument or field is modelled by a sequence of length 0     *)
(* (undefined) or 1, or by a record field that is absent.                  *)
(* An angle a is modelled by the pair [num, den] with                      *)
(* a = 2*pi*num/den - pi/2; two angles are compared by value (SameAngle).  *)
(* The consensus level, a mean, is the fraction [num, den] in lowest       *)
(* terms.                                                                  *)
(***************************************************************************)
EXTENDS Integers, Sequences, FiniteSets, TLC

\* ------------------------------------------------------------------ bounds

\* Largest value the factory counter participantCount reaches.
MaxCreated == 3

\* Most clear-speaker timeouts outstanding at once.
MaxTimers == 2

\* Most setNovelty calls on one HUD between two resets, in calls on the HUD.
MaxRecorded == 11

\* A speaker turn or an event that records a novelty level is taken while
\* fewer than MaxSamples levels are recorded.
MaxSamples == 2

\* Largest value of participantCount where participants leave and come back.
MaxRecreated == 9

\* --------------------------------------------------------------- constants

\* ParticipantManager.tableRadius, ParticipantFactory's initial radius.
DefaultTableRadius == 220

\* BoardroomScene2D.TABLE_RADIUS, the other radius setTableRadius is given.
SceneTableRadius == 150

\* ParticipantFactory.colors.length
NumColors == 8

Names == {"Alice", "Bob", "Charlie"}

Roles == {"Agent"}

\* null (and undefined, where the code tests truthiness only)
Null == "null"

TurnTypes == {"turn", "response"}

\* round_num values the inputs carry
Rounds == {0, 1}

\* roundNum?: number -- <<>> is undefined
OptRounds == {<<>>} \cup {<<r>> : r \in Rounds}

Radii == {DefaultTableRadius, SceneTableRadius}

\* noveltyHistory keeps the last HistoryWindow values.
HistoryWindow == 10

\* Bounds of the novelty and consensus levels, in percent.
MinLevel == 0

MaxLevel == 100

\* HUDController.noveltyLevel as constructed and after reset().
DefaultNovelty == 50

\* HUDController.setSpeaker: a turn lowers the novelty level by TurnDecay,
\* not below NoveltyFloor.
TurnDecay == 5

NoveltyFloor == 20

\* Values of Math.random() * 3 in a call of setSpeaker.
RandomParts == {0, 2}

\* Levels setNovelty is called with.
Levels == {-10, 150}

\* The handlers given to subscribe.
Handlers == {"h1", "h2"}

\* The ParticipantStateMachine objects constructed on their own.
Machines == {"m1", "m2", "m3"}

VisualStates == {"idle", "speaking", "listening", "thinking"}

VARIABLES
  participants,      \* ParticipantManager.participants: Map values, insertion order
  stateMachines,     \* ParticipantManager.stateMachines: name -> currentState
  tableRadius,       \* ParticipantManager.tableRadius
  participantCount,  \* ParticipantFactory.participantCount (static)
  notes,             \* change records delivered to a subscriber by the last call
  lastOp,            \* the last call: its name, arguments and result
  timers,            \* outstanding setTimeout callbacks of BloodbankEventSource
  subscribers,       \* ParticipantManager.subscribers: Set values, insertion order
  unsubscribes,      \* the handlers whose unsubscribe function subscribe returned
  delivered,         \* handler -> the change records it was called with, last call
  machines,          \* ParticipantStateMachine objects on their own: currentState
  noveltyLevel,      \* HUDController.noveltyLevel
  noveltyHistory,    \* HUDController.noveltyHistory
  consensusLevel,    \* HUDController.consensusLevel
  recorded,          \* the levels setNovelty was called with since new or reset()
  meetingState,      \* BoardroomScene2D.meetingState
  bloodbank,         \* BloodbankEventSource: client, subscription, isConnected,
                     \* reconnectAttempts
  factory,           \* a call of createEventSource: where it is, what it returned
  scene,             \* BoardroomScene2D.participants (name -> isSpeaking) and
                     \* the portrait loads its addParticipant calls await
  mock               \* MockEventSource2D: demoInterval, currentRound,
                     \* participantIndex, and the timers it has set

hudVars == <<noveltyLevel, noveltyHistory, consensusLevel, recorded>>

sourceVars == <<bloodbank, factory>>

vars == <<participants, stateMachines, tableRadius, participantCount,
          notes, lastOp, timers, subscribers, unsubscribes, delivered, machines,
          noveltyLevel, noveltyHistory, consensusLevel, recorded, meetingState,
          bloodbank, factory, scene, mock>>

\* ------------------------------------------------- ParticipantStateMachine

\* The transitions table of isValidTransition.
Transitions ==
  [idle      |-> {"speaking", "listening", "thinking"},
   speaking  |-> {"idle", "listening"},
   listening |-> {"speaking", "idle"},
   thinking  |-> {"speaking", "idle"}]

\* isValidTransition, with a mutant that lets every move through.
isValidTransition_Any(from, to) == TRUE

isValidTransition(from, to) == to \in Transitions[from]

\* currentState after transition(newState): unchanged when the move is invalid.
transition(currentState, newState) ==
  IF isValidTransition(currentState, newState) THEN newState ELSE currentState

\* What transition(newState) returns.
transitionReturns(currentState, newState) ==
  isValidTransition(currentState, newState)

\* ParticipantStateMachine.reset
machineReset(currentState) == "idle"

\* ------------------------------------------------------ ParticipantFactory

\* createParticipant: the object built from config when the counter reads
\* index; a colour is its place in the list of colours. The mutant's list has
\* seven colours.
createParticipant_SevenColors(config, index) ==
  [entity   |-> [id |-> config.name, name |-> config.name, role |-> config.role,
                 color |-> index % (NumColors - 1)],
   state    |-> [visual |-> "idle", turnType |-> Null, lastActiveRound |-> 0,
                 isSpeaking |-> FALSE],
   position |-> [angle |-> [num |-> 1, den |-> 4], radius |-> DefaultTableRadius,
                 index |-> index]]

createParticipant(config, index) ==
  [entity   |-> [id |-> config.name, name |-> config.name, role |-> config.role,
                 color |-> index % NumColors],
   state    |-> [visual |-> "idle", turnType |-> Null, lastActiveRound |-> 0,
                 isSpeaking |-> FALSE],
   position |-> [angle |-> [num |-> 1, den |-> 4], radius |-> DefaultTableRadius,
                 index |-> index]]

\* ----------------------------------------------------------- HUDController

\* The metrics of the HUD, as one value the methods transform.
Hud ==
  [noveltyLevel |-> noveltyLevel, noveltyHistory |-> noveltyHistory,
   consensusLevel |-> consensusLevel, recorded |-> recorded]

RECURSIVE GCD(_, _)
GCD(a, b) == IF b = 0 THEN a ELSE GCD(b, a % b)

\* The number num / den, den > 0, as a fraction in lowest terms.
Ratio(num, den) ==
  LET g == GCD(IF num < 0 THEN -num ELSE num, den)
  IN [num |-> num \div g, den |-> den \div g]

\* Math.max(0, Math.min(100, level)), of a number
Clamp(level) ==
  LET capped == IF level < MaxLevel THEN level ELSE MaxLevel
  IN IF capped > MinLevel THEN capped ELSE MinLevel

\* Math.max(0, Math.min(100, r)), of a fraction
ClampRatio(r) ==
  IF r.num > MaxLevel * r.den THEN [num |-> MaxLevel, den |-> 1]
  ELSE IF r.num < MinLevel * r.den THEN [num |-> MinLevel, den |-> 1]
  ELSE r

RECURSIVE Sum(_)
\* history.reduce((sum, v) => sum + v, 0)
Sum(history) ==
  IF history = <<>> THEN 0 ELSE Head(history) + Sum(Tail(history))

\* setNovelty: the history after the push, shifted when it is longer than the
\* window. The mutant drops the value pushed instead.
Keep_Oldest(pushed) ==
  IF Len(pushed) > HistoryWindow THEN SubSeq(pushed, 1, HistoryWindow) ELSE pushed

Keep(pushed) ==
  IF Len(pushed) > HistoryWindow THEN Tail(pushed) ELSE pushed

\* setNovelty: the consensus level, 100 - avgNovelty clamped, of a history
\* that is not empty. The mutant takes the last value for the average.
Consensus_OfLast(history) ==
  ClampRatio(Ratio(MaxLevel - history[Len(history)], 1))

Consensus(history) ==
  ClampRatio(Ratio(MaxLevel * Len(history) - Sum(history), Len(history)))

setNovelty(h, level) ==
  LET kept == Keep(Append(h.noveltyHistory, Clamp(level)))
  IN [noveltyLevel |-> Clamp(level),
      noveltyHistory |-> kept,
      consensusLevel |-> Consensus(kept),
      recorded |-> Append(h.recorded, level)]

\* if (name): null, undefined and the empty string are falsy.
Truthy(name) == name # Null /\ name # ""

\* setSpeaker, its effect on the metrics: with a name the novelty level
\* drops and is recorded. random is the value of Math.random() * 3.
setSpeaker(h, name, turnType, random) ==
  IF Truthy(name)
  THEN LET lowered == h.noveltyLevel - TurnDecay + random
           level == IF lowered > NoveltyFloor THEN lowered ELSE NoveltyFloor
       IN setNovelty([h EXCEPT !.noveltyLevel = level], level)
  ELSE h

\* setMeetingStatus, its effect on the metrics, with a mutant that clears the
\* history when the meeting has converged.
setMeetingStatus_Clears(h, status) ==
  IF status = "converged"
  THEN [h EXCEPT !.consensusLevel = [num |-> MaxLevel, den |-> 1],
                 !.noveltyHistory = <<>>]
  ELSE h

setMeetingStatus(h, status) ==
  IF status = "converged"
  THEN [h EXCEPT !.consensusLevel = [num |-> MaxLevel, den |-> 1]]
  ELSE h

\* HUDController.reset, its effect on the metrics.
hudReset(h) ==
  setNovelty([noveltyLevel |-> DefaultNovelty, noveltyHistory |-> <<>>,
              consensusLevel |-> [num |-> 0, den |-> 1], recorded |-> <<>>],
             DefaultNovelty)

\* The metrics after a call.
HudBecomes(h) ==
  /\ noveltyLevel' = h.noveltyLevel
  /\ noveltyHistory' = h.noveltyHistory
  /\ consensusLevel' = h.consensusLevel
  /\ recorded' = h.recorded

\* ------------------------------------------------------ ParticipantManager

\* The manager with the factory counter, as one value the methods transform.
Mgr ==
  [participants |-> participants, stateMachines |-> stateMachines,
   tableRadius |-> tableRadius, participantCount |-> participantCount,
   notes |-> <<>>, ret |-> <<>>]

NamesOf(ps) == {ps[i].entity.name : i \in 1..Len(ps)}

\* participants.has(name)
Has(ps, name) == name \in NamesOf(ps)

IndexOf(ps, name) == CHOOSE i \in 1..Len(ps) : ps[i].entity.name = name

\* participants.get(name), for a name that is present
Get(ps, name) == ps[IndexOf(ps, name)]

\* participants.delete(name)
Delete(ps, name) ==
  SelectSeq(ps, LAMBDA p : p.entity.name # name)

\* notify: every subscriber is handed the record.
notify(m, event) == [m EXCEPT !.notes = Append(@, event)]

\* The handlers in the Set subs.
Subscribed(subs) == {subs[k] : k \in 1..Len(subs)}

\* The loop of notify, over a call: a handler in the Set is called with every
\* record of the call, a handler that is not in it with none.
Deliver(subs, events) ==
  [h \in Handlers |-> IF h \in Subscribed(subs) THEN events ELSE <<>>]

\* subscribe: subscribers.add(handler)
subscribe(subs, handler) ==
  IF handler \in Subscribed(subs) THEN subs ELSE Append(subs, handler)

\* The function subscribe returns: subscribers.delete(handler). The mutant
\* empties the Set.
unsubscribe_All(subs, handler) == <<>>

unsubscribe(subs, handler) == SelectSeq(subs, LAMBDA g : g # handler)

\* arrangeParticipants: every seat is computed anew, then one batch record.
arrangeParticipants(m) ==
  LET count == Len(m.participants) IN
  IF count = 0 THEN m
  ELSE
    LET arranged ==
          [i \in 1..count |->
             [m.participants[i] EXCEPT
                !.position = [angle |-> [num |-> i - 1, den |-> count],
                              radius |-> m.tableRadius,
                              index |-> i - 1]]]
    IN notify([m EXCEPT !.participants = arranged],
              [type |-> "position_changed", participants |-> arranged])

\* participants.set(name, participant): a new key goes last, an existing key
\* keeps its place.
MapSet(ps, name, participant) ==
  IF Has(ps, name)
  THEN [ps EXCEPT ![IndexOf(ps, name)] = participant]
  ELSE Append(ps, participant)

\* addParticipant, with a mutant that lacks the "already exists" check.
addParticipant_NoCheck(m, config) ==
  LET participant == createParticipant(config, m.participantCount)
      stored == [m EXCEPT
                   !.participants = MapSet(@, config.name, participant),
                   !.stateMachines =
                      [n \in DOMAIN @ \cup {config.name} |->
                         IF n = config.name THEN "idle" ELSE @[n]],
                   !.participantCount = @ + 1]
      arranged == arrangeParticipants(stored)
      seated == Get(arranged.participants, config.name)
  IN [notify(arranged, [type |-> "added", participant |-> seated])
        EXCEPT !.ret = <<seated>>]

addParticipant(m, config) ==
  IF Has(m.participants, config.name)
  THEN [m EXCEPT !.ret = <<Get(m.participants, config.name)>>]
  ELSE
    LET participant == createParticipant(config, m.participantCount)
        stored == [m EXCEPT
                     !.participants = MapSet(@, config.name, participant),
                     !.stateMachines =
                        [n \in DOMAIN @ \cup {config.name} |->
                           IF n = config.name THEN "idle" ELSE @[n]],
                     !.participantCount = @ + 1]
        arranged == arrangeParticipants(stored)
        seated == Get(arranged.participants, config.name)
    IN [notify(arranged, [type |-> "added", participant |-> seated])
          EXCEPT !.ret = <<seated>>]

\* removeParticipant, with a mutant that leaves the seats as they were.
removeParticipant_NoArrange(m, name) ==
  IF ~Has(m.participants, name)
  THEN [m EXCEPT !.ret = <<FALSE>>]
  ELSE
    LET participant == Get(m.participants, name)
        deleted == [m EXCEPT
                      !.participants = Delete(@, name),
                      !.stateMachines = [n \in DOMAIN @ \ {name} |-> @[n]]]
    IN [notify(notify(deleted, [type |-> "position_changed",
                                participants |-> deleted.participants]),
               [type |-> "removed", participant |-> participant])
          EXCEPT !.ret = <<TRUE>>]

removeParticipant(m, name) ==
  IF ~Has(m.participants, name)
  THEN [m EXCEPT !.ret = <<FALSE>>]
  ELSE
    LET participant == Get(m.participants, name)
        deleted == [m EXCEPT
                      !.participants = Delete(@, name),
                      !.stateMachines = [n \in DOMAIN @ \ {name} |-> @[n]]]
    IN [notify(arrangeParticipants(deleted),
               [type |-> "removed", participant |-> participant])
          EXCEPT !.ret = <<TRUE>>]

\* stateMachines.get(name)?.transition(to), then
\* participant.state.visual = stateMachine?.getState() ?? fallback:
\* the manager after moving the participant at place i. The mutant takes the
\* fallback whatever the state machine says.
Move_Fallback(m, i, to, fallback) ==
  LET name == m.participants[i].entity.name IN
  IF name \in DOMAIN m.stateMachines
  THEN [m EXCEPT !.stateMachines[name] = transition(@, to),
                 !.participants[i].state.visual = fallback]
  ELSE [m EXCEPT !.participants[i].state.visual = fallback]

Move(m, i, to, fallback) ==
  LET name == m.participants[i].entity.name IN
  IF name \in DOMAIN m.stateMachines
  THEN LET next == transition(m.stateMachines[name], to) IN
       [m EXCEPT !.stateMachines[name] = next,
                 !.participants[i].state.visual = next]
  ELSE [m EXCEPT !.participants[i].state.visual = fallback]

\* setSpeaking, first loop: one participant's speaking state is cleared. The
\* mutant moves the participant to listening whether it spoke or not.
ClearOne_AlwaysListening(m, i) ==
  Move([m EXCEPT !.participants[i].state.isSpeaking = FALSE,
                 !.participants[i].state.turnType = Null],
       i, "listening", "idle")

ClearOne(m, i) ==
  LET wasSpeaking == m.participants[i].state.isSpeaking
      cleared == [m EXCEPT !.participants[i].state.isSpeaking = FALSE,
                           !.participants[i].state.turnType = Null]
  IN IF wasSpeaking THEN Move(cleared, i, "listening", "idle") ELSE cleared

RECURSIVE ClearFrom(_, _)
ClearFrom(m, i) ==
  IF i > Len(m.participants) THEN m ELSE ClearFrom(ClearOne(m, i), i + 1)

\* setSpeaking, first loop, with a mutant that clears nobody.
ClearSpeaking_Nobody(m) == m

ClearSpeaking(m) == ClearFrom(m, 1)

\* setSpeaking, the branch of a truthy name.
SpeakTarget(m, name, turnType, roundNum) ==
  IF ~Has(m.participants, name) THEN m
  ELSE
    LET i == IndexOf(m.participants, name)
        set == [m EXCEPT
                  !.participants[i].state.isSpeaking = TRUE,
                  !.participants[i].state.turnType = turnType,
                  !.participants[i].state.lastActiveRound =
                     IF roundNum # <<>> THEN roundNum[1] ELSE @]
        moved == Move(set, i, "speaking", "speaking")
    IN notify(moved, [type |-> "state_changed",
                      participant |-> moved.participants[i]])

\* setSpeaking, the else branch: every participant that is not idle is moved
\* to idle. The mutant moves nobody.
IdleOne_Skip(m, i) == m

IdleOne(m, i) ==
  IF m.participants[i].state.visual # "idle"
  THEN Move(m, i, "idle", "idle")
  ELSE m

RECURSIVE IdleFrom(_, _)
IdleFrom(m, i) ==
  IF i > Len(m.participants) THEN m ELSE IdleFrom(IdleOne(m, i), i + 1)

RECURSIVE NotifyEach(_, _)
NotifyEach(m, i) ==
  IF i > Len(m.participants) THEN m
  ELSE NotifyEach(notify(m, [type |-> "state_changed",
                             participant |-> m.participants[i]]), i + 1)

\* setSpeaking, the else branch, with a mutant that notifies once per
\* participant.
IdleAll_PerParticipant(m) == NotifyEach(IdleFrom(m, 1), 1)

IdleAll(m) ==
  LET idled == IdleFrom(m, 1) IN
  notify(idled, [type |-> "state_changed", participants |-> idled.participants])

setSpeaking(m, name, turnType, roundNum) ==
  LET cleared == ClearSpeaking(m) IN
  IF Truthy(name)
  THEN SpeakTarget(cleared, name, turnType, roundNum)
  ELSE IdleAll(cleared)

\* getSpeakingParticipant: the first participant with isSpeaking, <<>> for null.
getSpeakingParticipant(ps) ==
  LET speaking == SelectSeq(ps, LAMBDA p : p.state.isSpeaking) IN
  IF speaking = <<>> THEN <<>> ELSE <<speaking[1]>>

\* clearParticipants (ParticipantFactory.reset included), with a mutant that
\* sends an empty batch along.
clearParticipants_WithBatch(m) ==
  notify([m EXCEPT !.participants = <<>>,
                   !.stateMachines = [n \in {} |-> "idle"],
                   !.participantCount = 0],
         [type |-> "cleared", participants |-> <<>>])

\* A mutant that leaves ParticipantFactory.reset() out.
clearParticipants_KeepCounter(m) ==
  notify([m EXCEPT !.participants = <<>>,
                   !.stateMachines = [n \in {} |-> "idle"]],
         [type |-> "cleared"])

clearParticipants(m) ==
  notify([m EXCEPT !.participants = <<>>,
                   !.stateMachines = [n \in {} |-> "idle"],
                   !.participantCount = 0],
         [type |-> "cleared"])

setTableRadius(m, radius) ==
  arrangeParticipants([m EXCEPT !.tableRadius = radius])

updateRoundActivity(m, name, roundNum) ==
  IF Has(m.participants, name)
  THEN [m EXCEPT !.participants[IndexOf(m.participants, name)]
                    .state.lastActiveRound = roundNum]
  ELSE m

\* The manager's fields after a call.
Changes(m) ==
  /\ participants' = m.participants
  /\ stateMachines' = m.stateMachines
  /\ tableRadius' = m.tableRadius
  /\ participantCount' = m.participantCount
  /\ notes' = m.notes
  /\ delivered' = Deliver(subscribers, m.notes)
  /\ UNCHANGED <<subscribers, unsubscribes>>

\* The manager's fields after a call, no scene listening.
Becomes(m) == Changes(m) /\ UNCHANGED <<scene, mock>>

\* ------------------------------------------------ calls on the manager

\* What a call on the manager leaves alone.
outsideManager ==
  <<timers, machines, noveltyLevel, noveltyHistory, consensusLevel, recorded,
    meetingState, bloodbank, factory>>

Init ==
  /\ participants = <<>>
  /\ stateMachines = [n \in {} |-> "idle"]
  /\ tableRadius = DefaultTableRadius
  /\ participantCount = 0
  /\ notes = <<>>
  /\ lastOp = [op |-> "new"]
  /\ timers = 0
  /\ subscribers = <<>>
  /\ unsubscribes = {}
  /\ delivered = [h \in Handlers |-> <<>>]
  /\ machines = [k \in {} |-> "idle"]
  /\ noveltyLevel = DefaultNovelty
  /\ noveltyHistory = <<>>
  /\ consensusLevel = [num |-> 0, den |-> 1]
  /\ recorded = <<>>
  /\ meetingState = [meetingId |-> "", topic |-> "", status |-> "waiting",
                     currentRound |-> 0, maxRounds |-> 0,
                     speakingParticipant |-> Null, turnType |-> Null]
  /\ bloodbank = [client |-> FALSE, subscription |-> FALSE,
                  isConnected |-> FALSE, reconnectAttempts |-> 0]
  /\ factory = [pc |-> "idle", type |-> "none", bloodbankUrl |-> "",
                source |-> "none", timeout |-> FALSE, checkInterval |-> FALSE]
  /\ scene = [participants |-> [n \in {} |-> FALSE],
              loading |-> [n \in Names |-> 0]]
  /\ mock = [demoInterval |-> FALSE, currentRound |-> 0, participantIndex |-> 0,
             intervals |-> 0, scripts |-> <<>>, turns |-> 0, completing |-> 0,
             restarting |-> 0, demos |-> 0, stopped |-> FALSE, completed |-> 0,
             restarts |-> 0]

\* addParticipant while the factory has created fewer than most participants
AddParticipantWithin(name, role, most) ==
  /\ Has(participants, name) \/ participantCount < most
  /\ \E m \in {addParticipant(Mgr, [name |-> name, role |-> role])} :
       /\ Becomes(m)
       /\ lastOp' = [op |-> "addParticipant", name |-> name,
                     existed |-> Has(participants, name), ret |-> m.ret[1]]
  /\ UNCHANGED outsideManager

AddParticipant(name, role) == AddParticipantWithin(name, role, MaxCreated)

RemoveParticipant(name) ==
  /\ \E m \in {removeParticipant(Mgr, name)} :
       /\ Becomes(m)
       /\ lastOp' = [op |-> "removeParticipant", name |-> name, ret |-> m.ret[1]]
  /\ UNCHANGED outsideManager

SetSpeaking(name, turnType, roundNum) ==
  /\ \E m \in {setSpeaking(Mgr, name, turnType, roundNum)} : Becomes(m)
  /\ lastOp' = [op |-> "setSpeaking", name |-> name,
                existed |-> Has(participants, name)]
  /\ UNCHANGED outsideManager

ClearParticipants ==
  /\ \E m \in {clearParticipants(Mgr)} : Becomes(m)
  /\ lastOp' = [op |-> "clearParticipants", removed |-> Len(participants)]
  /\ UNCHANGED outsideManager

SetTableRadius(radius) ==
  /\ \E m \in {setTableRadius(Mgr, radius)} : Becomes(m)
  /\ lastOp' = [op |-> "setTableRadius"]
  /\ UNCHANGED outsideManager

UpdateRoundActivity(name, roundNum) ==
  /\ \E m \in {updateRoundActivity(Mgr, name, roundNum)} : Becomes(m)
  /\ lastOp' = [op |-> "updateRoundActivity"]
  /\ UNCHANGED outsideManager

\* ------------------------------------- BloodbankEventSource, connection

\* WebSocket errors counted before the next one is left out
MaxAttempts == 1

\* connect(): a new Client is made and activated
connect(b) == [b EXCEPT !.client = TRUE]

\* disconnect(): the subscription and the client are dropped
disconnect(b) ==
  [b EXCEPT !.subscription = FALSE, !.client = FALSE, !.isConnected = FALSE]

\* handleConnect(): the source subscribes to the exchange if it has a client
handleConnect(b) ==
  [b EXCEPT !.isConnected = TRUE, !.reconnectAttempts = 0,
            !.subscription = IF b.client THEN TRUE ELSE @]

handleDisconnect(b) == [b EXCEPT !.isConnected = FALSE]

handleWebSocketError(b) == [b EXCEPT !.reconnectAttempts = @ + 1]

\* Messages of the exchange reach handleMessage: the source is subscribed
\* on a connection that is up.
Receiving == bloodbank.subscription /\ bloodbank.isConnected

\* What the connection's calls and callbacks leave alone.
outsideSource ==
  <<participants, stateMachines, tableRadius, participantCount, notes, timers,
    subscribers, unsubscribes, delivered, machines, noveltyLevel,
    noveltyHistory, consensusLevel, recorded, meetingState, scene, mock>>

\* connect() on a source that has no client
Connect ==
  /\ ~bloodbank.client
  /\ bloodbank' = connect(bloodbank)
  /\ lastOp' = [op |-> "connect"]
  /\ UNCHANGED <<factory, outsideSource>>

\* disconnect() on a source that has a client
Disconnect ==
  /\ bloodbank.client
  /\ bloodbank' = disconnect(bloodbank)
  /\ lastOp' = [op |-> "disconnect"]
  /\ UNCHANGED <<factory, outsideSource>>

\* onConnect of the client: the connection is up
HandleConnect ==
  /\ bloodbank.client
  /\ ~bloodbank.isConnected
  /\ bloodbank' = handleConnect(bloodbank)
  /\ lastOp' = [op |-> "handleConnect"]
  /\ UNCHANGED <<factory, outsideSource>>

\* onDisconnect of the client: the connection went down
HandleDisconnect ==
  /\ bloodbank.client
  /\ bloodbank.isConnected
  /\ bloodbank' = handleDisconnect(bloodbank)
  /\ lastOp' = [op |-> "handleDisconnect"]
  /\ UNCHANGED <<factory, outsideSource>>

\* onWebSocketError of the client while it tries to connect
HandleWebSocketError ==
  /\ bloodbank.client
  /\ ~bloodbank.isConnected
  /\ bloodbank.reconnectAttempts < MaxAttempts
  /\ bloodbank' = handleWebSocketError(bloodbank)
  /\ lastOp' = [op |-> "handleWebSocketError"]
  /\ UNCHANGED <<factory, outsideSource>>

\* ------------------------------------- BloodbankEventSource.processEvent

\* selected_agents of theboard.meeting.started
AgentLists == {<<"Alice", "Bob">>, <<"Bob">>}

\* payload.agent_name
AgentNames == {"Alice", "Bob"}

\* payload.agent_name of turn.completed -- Null is a payload without it
OptAgentNames == {"Alice", Null}

\* payload.turn_type -- <<>> is a payload without it
OptTurnTypes == {<<>>, <<"response">>}

\* payload.meeting_id, payload.topic and payload.max_rounds of meeting.created
MeetingIds == {"meeting-1"}

Topics == {"topic"}

RoundLimits == {3}

\* payload.avg_novelty in hundredths -- <<>> is a payload without it
OptAvgNovelty == {<<>>, <<0>>, <<90>>}

\* (payload.avg_novelty as number) || 0.5, in hundredths
DefaultAvgNovelty == 50

\* event types processEvent has no case for
UnknownTypes == {"theboard.meeting.paused"}

\* Values of Math.random() * 3 while an event is handled.
EventRandomParts == {0}

\* the names in a list of agents
Range(agents) == {agents[i] : i \in 1..Len(agents)}

RECURSIVE AddAll_LastFirst(_, _, _)
\* The mutant of the loop below adds the agents from the last to the first.
AddAll_LastFirst(m, agents, i) ==
  IF i > Len(agents) THEN m
  ELSE addParticipant(AddAll_LastFirst(m, agents, i + 1),
                      [name |-> agents[i], role |-> "Agent"])

RECURSIVE AddAll(_, _, _)
\* the loop of 'theboard.meeting.started' over selected_agents, from place i
AddAll(m, agents, i) ==
  IF i > Len(agents) THEN m
  ELSE AddAll(addParticipant(m, [name |-> agents[i], role |-> "Agent"]),
              agents, i + 1)

\* setTimeout(() => setSpeaking(null, null), 500): one more callback is
\* outstanding. Equal delays fire in the order they were set. The mutant
\* schedules nothing.
ScheduleClear_Never(outstanding) == outstanding

ScheduleClear(outstanding) == outstanding + 1

\* (payload.turn_type as 'response' | 'turn') || 'turn'. The mutant passes
\* a missing turn_type on as null.
TurnTypeOf_NoDefault(turn_type) == IF turn_type = <<>> THEN Null ELSE turn_type[1]

TurnTypeOf(turn_type) == IF turn_type = <<>> THEN "turn" ELSE turn_type[1]

\* ((payload.avg_novelty as number) || 0.5) * 100
NoveltyOf(avg_novelty) ==
  IF avg_novelty = <<>> \/ avg_novelty[1] = 0
  THEN DefaultAvgNovelty
  ELSE avg_novelty[1]

\* the name of the participant speaking, <<>> when there is none
SpeakerName(ps) ==
  IF getSpeakingParticipant(ps) = <<>> THEN <<>>
  ELSE <<getSpeakingParticipant(ps)[1].entity.name>>

\* BoardroomScene2D.updateMeetingState: { ...meetingState, ...state }. The
\* mutant drops the update.
updateMeetingState_Keeps(ms, state) == ms

updateMeetingState(ms, state) ==
  [f \in DOMAIN ms |-> IF f \in DOMAIN state THEN state[f] ELSE ms[f]]

\* case 'theboard.meeting.created'
MeetingCreated(meeting_id, topic, max_rounds) ==
  /\ Receiving
  /\ lastOp' = [op |-> "meeting.created"]
  /\ meetingState' =
       updateMeetingState(meetingState,
                          [meetingId |-> meeting_id, topic |-> topic,
                           status |-> "waiting", maxRounds |-> max_rounds])
  /\ \E m \in {clearParticipants(Mgr)} : Becomes(m)
  /\ UNCHANGED <<bloodbank, factory, timers, machines, hudVars>>

\* case 'theboard.meeting.started'
MeetingStarted(agents) ==
  /\ Receiving
  /\ participantCount + Cardinality(Range(agents) \ NamesOf(participants))
       <= MaxCreated
  /\ lastOp' = [op |-> "meeting.started"]
  /\ meetingState' =
       updateMeetingState(meetingState, [status |-> "active", currentRound |-> 1])
  /\ \E m \in {AddAll(Mgr, agents, 1)} : Becomes(m)
  /\ UNCHANGED <<bloodbank, factory, timers, machines, hudVars>>

\* case 'theboard.meeting.participant.added'
ParticipantAdded(agent_name, expertise) ==
  /\ Receiving
  /\ Has(participants, agent_name) \/ participantCount < MaxCreated
  /\ lastOp' = [op |-> "participant.added"]
  /\ \E m \in {addParticipant(Mgr, [name |-> agent_name, role |-> expertise])} :
       Becomes(m)
  /\ UNCHANGED <<bloodbank, factory, timers, machines, hudVars, meetingState>>

\* case 'theboard.meeting.participant.turn.completed'
TurnCompleted(agent_name, turn_type, round_num, random) ==
  /\ Receiving
  /\ timers < MaxTimers
  /\ Len(recorded) < MaxSamples
  /\ lastOp' = [op |-> "turn.completed", name |-> agent_name,
                existed |-> Has(participants, agent_name),
                turn_type |-> turn_type, round_num |-> round_num]
  /\ timers' = ScheduleClear(timers)
  /\ HudBecomes(setSpeaker(Hud, agent_name, TurnTypeOf(turn_type), random))
  /\ \E m \in {setSpeaking(Mgr, agent_name, TurnTypeOf(turn_type), round_num)} :
       Becomes(m)
  /\ UNCHANGED <<bloodbank, factory, machines, meetingState>>

\* case 'theboard.meeting.round_completed'
RoundCompleted(round_num, avg_novelty) ==
  /\ Receiving
  /\ Len(recorded) < MaxSamples
  /\ lastOp' = [op |-> "round_completed"]
  /\ meetingState' = updateMeetingState(meetingState, [currentRound |-> round_num])
  /\ HudBecomes(setNovelty(Hud, NoveltyOf(avg_novelty)))
  /\ Becomes(Mgr)
  /\ UNCHANGED <<bloodbank, factory, timers, machines>>

\* case 'theboard.meeting.comment_extracted'
CommentExtracted ==
  /\ Receiving
  /\ Becomes(Mgr)
  /\ lastOp' = [op |-> "comment_extracted"]
  /\ UNCHANGED <<bloodbank, factory, timers, machines, hudVars, meetingState>>

\* cases 'theboard.meeting.converged', '.completed' and '.failed'. The
\* mutant leaves the registry's speaker alone.
MeetingEnded_KeepsSpeaker(status) ==
  /\ Receiving
  /\ lastOp' = [op |-> "meeting.ended", status |-> status,
                before |-> SpeakerName(participants)]
  /\ meetingState' = updateMeetingState(meetingState, [status |-> status])
  /\ Becomes(Mgr)
  /\ HudBecomes(setMeetingStatus(setSpeaker(Hud, Null, Null, 0), status))
  /\ UNCHANGED <<bloodbank, factory, timers, machines>>

MeetingEnded(status) ==
  /\ Receiving
  /\ lastOp' = [op |-> "meeting.ended", status |-> status,
                before |-> SpeakerName(participants)]
  /\ meetingState' = updateMeetingState(meetingState, [status |-> status])
  /\ \E m \in {setSpeaking(Mgr, Null, Null, <<>>)} : Becomes(m)
  /\ HudBecomes(setMeetingStatus(setSpeaker(Hud, Null, Null, 0), status))
  /\ UNCHANGED <<bloodbank, factory, timers, machines>>

\* default: the event is logged, with a mutant that starts a new meeting.
Unhandled_Clears(event_type) ==
  /\ Receiving
  /\ \E m \in {clearParticipants(Mgr)} : Becomes(m)
  /\ lastOp' = [op |-> "unhandled", type |-> event_type]
  /\ UNCHANGED <<bloodbank, factory, timers, machines, hudVars, meetingState>>

Unhandled(event_type) ==
  /\ Receiving
  /\ Becomes(Mgr)
  /\ lastOp' = [op |-> "unhandled", type |-> event_type]
  /\ UNCHANGED <<bloodbank, factory, timers, machines, hudVars, meetingState>>

\* The oldest outstanding timeout fires: the callback of lines 232-235.
\* stale: a later turn.completed was handled since this timeout was set.
TimerFire ==
  /\ timers > 0
  /\ \E m \in {setSpeaking(Mgr, Null, Null, <<>>)} : Becomes(m)
  /\ HudBecomes(setSpeaker(Hud, Null, Null, 0))
  /\ timers' = timers - 1
  /\ lastOp' = [op |-> "timerFire", stale |-> timers > 1,
                before |-> SpeakerName(participants)]
  /\ UNCHANGED <<bloodbank, factory, machines, meetingState>>

NextEvent ==
  \/ Connect
  \/ HandleConnect
  \/ \E meeting_id \in MeetingIds, topic \in Topics, max_rounds \in RoundLimits :
        MeetingCreated(meeting_id, topic, max_rounds)
  \/ \E agents \in AgentLists : MeetingStarted(agents)
  \/ \E agent_name \in AgentNames, expertise \in Roles :
        ParticipantAdded(agent_name, expertise)
  \/ \E agent_name \in AgentNames, turn_type \in OptTurnTypes,
        round_num \in OptRounds, random \in EventRandomParts :
        TurnCompleted(agent_name, turn_type, round_num, random)
  \/ \E round_num \in Rounds, avg_novelty \in OptAvgNovelty :
        RoundCompleted(round_num, avg_novelty)
  \/ CommentExtracted
  \/ \E status \in {"converged", "completed", "failed"} : MeetingEnded(status)
  \/ \E event_type \in UnknownTypes : Unhandled(event_type)
  \/ TimerFire

\* The event source driving the registry, the HUD and the scene.
EventSpec == Init /\ [][NextEvent]_vars

\* A step that takes one outstanding timeout away. TimerFire is the only
\* action that lowers timers, so within NextEvent these are its steps, and
\* such a step is possible exactly when TimerFire is.
TimerElapses == timers > 0 /\ timers' = timers - 1

\* The event loop runs every timeout that is due.
EventSpecFair == Init /\ [][NextEvent]_vars /\ WF_timers(TimerElapses)

\* payloads of the meetings of NextMeeting
MeetingTopics == {"topic", "agenda"}

MeetingRoundLimits == {3, 5}

MeetingAgentLists ==
  {<<"Alice", "Bob">>, <<"Bob", "Charlie">>, <<"Charlie">>, <<"Alice", "Alice">>}

\* The event source over whole meetings: meetings are created, started with
\* lists of agents that overlap, joined by further agents and ended.
NextMeeting ==
  \/ Connect
  \/ HandleConnect
  \/ \E meeting_id \in MeetingIds, topic \in MeetingTopics,
        max_rounds \in MeetingRoundLimits :
        MeetingCreated(meeting_id, topic, max_rounds)
  \/ \E agents \in MeetingAgentLists : MeetingStarted(agents)
  \/ \E agent_name \in Names, expertise \in Roles :
        ParticipantAdded(agent_name, expertise)
  \/ \E status \in {"converged", "completed", "failed"} : MeetingEnded(status)

MeetingSpec == Init /\ [][NextMeeting]_vars

\* The event source with its connection: it connects, receives a meeting's
\* start and turns, some without agent_name, loses the connection and is
\* torn down, while the timeouts of its turns fire.
NextSource ==
  \/ Connect
  \/ HandleConnect
  \/ HandleDisconnect
  \/ HandleWebSocketError
  \/ Disconnect
  \/ MeetingStarted(<<"Alice", "Bob">>)
  \/ \E agent_name \in OptAgentNames, round_num \in OptRounds :
        TurnCompleted(agent_name, <<>>, round_num, 0)
  \/ TimerFire

SourceSpec == Init /\ [][NextSource]_vars

\* ---------------------------------------------------- EventSourceFactory

\* options.type -- <<>> is a call without it
OptSourceTypes == {<<>>, <<"mock">>, <<"bloodbank">>, <<"auto">>}

\* config.bloodbankUrl: the option, else VITE_BLOODBANK_WS_URL, else ''
BloodbankUrls == {"", "ws://localhost:15674/ws"}

\* { ...DEFAULT_OPTIONS, ...options }.type
SourceTypeOf(type) == IF type = <<>> THEN "auto" ELSE type[1]

\* createEventSource up to its return or its await. In auto mode with a URL
\* createBloodbankSourceWithTimeout sets the timeout and the polling
\* interval, starts the connection and awaits the promise.
CreateEventSource(type, bloodbankUrl) ==
  /\ factory.pc = "idle"
  /\ lastOp' = [op |-> "createEventSource"]
  /\ LET config == [factory EXCEPT !.type = SourceTypeOf(type),
                                   !.bloodbankUrl = bloodbankUrl]
     IN IF config.type = "mock"
        THEN /\ factory' = [config EXCEPT !.pc = "returned", !.source = "mock"]
             /\ UNCHANGED bloodbank
        ELSE IF config.type = "bloodbank"
        THEN /\ factory' = [config EXCEPT !.pc = "returned",
                                          !.source = "bloodbank"]
             /\ UNCHANGED bloodbank
        ELSE IF config.bloodbankUrl # ""
        THEN /\ factory' = [config EXCEPT !.pc = "waiting", !.timeout = TRUE,
                                          !.checkInterval = TRUE]
             /\ bloodbank' = connect(bloodbank)
        ELSE /\ factory' = [config EXCEPT !.pc = "returned", !.source = "mock"]
             /\ UNCHANGED bloodbank
  /\ UNCHANGED outsideSource

\* The callback of setInterval(..., 100): once bloodbank.connected it clears
\* the timeout and itself and resolves the promise; createEventSource, if it
\* still awaits, returns the Bloodbank source. resolve() on a promise that
\* was rejected does nothing.
CheckInterval ==
  /\ factory.checkInterval
  /\ lastOp' = [op |-> "checkInterval"]
  /\ factory' =
       IF ~bloodbank.isConnected THEN factory
       ELSE [factory EXCEPT
               !.timeout = FALSE,
               !.checkInterval = FALSE,
               !.pc = "returned",
               !.source = IF factory.pc = "waiting" THEN "bloodbank" ELSE @]
  /\ UNCHANGED <<bloodbank, outsideSource>>

\* The callback of setTimeout(..., timeout) rejects the promise:
\* createEventSource catches and returns the mock source. The interval is
\* not cleared and the Bloodbank source is not disconnected.
ConnectionTimeout ==
  /\ factory.timeout
  /\ lastOp' = [op |-> "connectionTimeout", connected |-> bloodbank.isConnected]
  /\ factory' = [factory EXCEPT !.timeout = FALSE, !.pc = "returned",
                                !.source = "mock"]
  /\ UNCHANGED <<bloodbank, outsideSource>>

\* connect() and disconnect() of the source createEventSource returned
ReturnedConnect == factory.source = "bloodbank" /\ Connect

ReturnedDisconnect == factory.source = "bloodbank" /\ Disconnect

NextFactory ==
  \/ \E type \in OptSourceTypes, bloodbankUrl \in BloodbankUrls :
        CreateEventSource(type, bloodbankUrl)
  \/ CheckInterval
  \/ ConnectionTimeout
  \/ HandleConnect
  \/ HandleDisconnect
  \/ HandleWebSocketError
  \/ ReturnedConnect
  \/ ReturnedDisconnect
  \/ MeetingStarted(<<"Alice", "Bob">>)
  \/ TurnCompleted("Alice", <<>>, <<1>>, 0)
  \/ TimerFire

\* A call of createEventSource, the connection of the Bloodbank source it
\* made and the events that source receives.
FactorySpec == Init /\ [][NextFactory]_vars

\* ---------------------------------- ParticipantStateMachine on its own

\* What a call on a state machine leaves alone.
outsideMachines ==
  <<participants, stateMachines, tableRadius, participantCount, notes, timers,
    subscribers, unsubscribes, delivered, noveltyLevel, noveltyHistory,
    consensusLevel, recorded, meetingState, bloodbank, factory, scene,
    mock>>

\* new ParticipantStateMachine()
NewMachine(k) ==
  /\ k \notin DOMAIN machines
  /\ machines' = [j \in DOMAIN machines \cup {k} |->
                    IF j = k THEN "idle" ELSE machines[j]]
  /\ lastOp' = [op |-> "newMachine"]
  /\ UNCHANGED outsideMachines

Transition(k, to) ==
  /\ k \in DOMAIN machines
  /\ machines' = [machines EXCEPT ![k] = transition(@, to)]
  /\ lastOp' = [op |-> "transition", machine |-> k, from |-> machines[k],
                to |-> to, ret |-> transitionReturns(machines[k], to)]
  /\ UNCHANGED outsideMachines

MachineReset(k) ==
  /\ k \in DOMAIN machines
  /\ machines' = [machines EXCEPT ![k] = machineReset(@)]
  /\ lastOp' = [op |-> "machineReset"]
  /\ UNCHANGED outsideMachines

NextMachine ==
  \/ \E k \in Machines : NewMachine(k)
  \/ \E k \in Machines, to \in VisualStates : Transition(k, to)
  \/ \E k \in Machines : MachineReset(k)

MachineSpec == Init /\ [][NextMachine]_vars

\* ------------------------------------------- subscribers of the manager

Subscribe(handler) ==
  /\ subscribers' = subscribe(subscribers, handler)
  /\ unsubscribes' = unsubscribes \cup {handler}
  /\ delivered' = Deliver(subscribers', <<>>)
  /\ notes' = <<>>
  /\ lastOp' = [op |-> "subscribe", handler |-> handler]
  /\ UNCHANGED <<participants, stateMachines, tableRadius, participantCount,
                 scene, mock>>
  /\ UNCHANGED outsideManager

\* A call of the function subscribe(handler) returned.
Unsubscribe(handler) ==
  /\ handler \in unsubscribes
  /\ subscribers' = unsubscribe(subscribers, handler)
  /\ delivered' = Deliver(subscribers', <<>>)
  /\ notes' = <<>>
  /\ lastOp' = [op |-> "unsubscribe", handler |-> handler]
  /\ UNCHANGED <<participants, stateMachines, tableRadius, participantCount,
                 unsubscribes, scene, mock>>
  /\ UNCHANGED outsideManager

NextSubscriber ==
  \/ \E handler \in Handlers : Subscribe(handler)
  \/ \E handler \in Handlers : Unsubscribe(handler)
  \/ \E name \in AgentNames, role \in Roles : AddParticipant(name, role)
  \/ \E name \in AgentNames : RemoveParticipant(name)
  \/ SetSpeaking(Null, Null, <<>>)
  \/ ClearParticipants

SubscriberSpec == Init /\ [][NextSubscriber]_vars

\* ------------------------------------------------------ calls on the HUD

\* What a call on the HUD leaves alone.
outsideHud ==
  <<participants, stateMachines, tableRadius, participantCount, notes, timers,
    subscribers, unsubscribes, delivered, machines, meetingState, bloodbank,
    factory, scene, mock>>

SetNovelty(level) ==
  /\ Len(recorded) < MaxRecorded
  /\ HudBecomes(setNovelty(Hud, level))
  /\ lastOp' = [op |-> "setNovelty", level |-> level]
  /\ UNCHANGED outsideHud

SetSpeaker(name, turnType, random) ==
  /\ Truthy(name) => Len(recorded) < MaxSamples
  /\ HudBecomes(setSpeaker(Hud, name, turnType, random))
  /\ lastOp' = [op |-> "setSpeaker", named |-> Truthy(name)]
  /\ UNCHANGED outsideHud

SetMeetingStatus(status) ==
  /\ HudBecomes(setMeetingStatus(Hud, status))
  /\ lastOp' = [op |-> "setMeetingStatus", status |-> status]
  /\ UNCHANGED outsideHud

HudReset ==
  /\ HudBecomes(hudReset(Hud))
  /\ lastOp' = [op |-> "reset"]
  /\ UNCHANGED outsideHud

NextMetrics ==
  \/ \E level \in Levels : SetNovelty(level)
  \/ \E name \in AgentNames, turnType \in TurnTypes, random \in RandomParts :
        SetSpeaker(name, turnType, random)
  \/ SetSpeaker(Null, Null, 0)
  \/ \E status \in {"converged", "failed"} : SetMeetingStatus(status)
  \/ HudReset

MetricsSpec == Init /\ [][NextMetrics]_vars

\* ------------------------------------ handlers that call the manager back

\* What a handler does when it is called with a record: nothing, call the
\* function subscribe(h) returned, or subscribe h.
Reactions ==
  {<<>>} \cup {<<"unsubscribe", h>> : h \in Handlers}
         \cup {<<"subscribe", h>> : h \in Handlers}

\* The Set, the unsubscribe functions and the records handed out after a
\* handler reacted. A handler can call an unsubscribe function only if
\* subscribe returned it.
React(st, reaction) ==
  IF reaction = <<>> THEN st
  ELSE IF reaction[1] = "unsubscribe"
  THEN IF reaction[2] \in st.unsubscribes
       THEN [st EXCEPT !.subscribers = unsubscribe(@, reaction[2])]
       ELSE st
  ELSE [st EXCEPT !.subscribers = subscribe(@, reaction[2]),
                  !.unsubscribes = @ \cup {reaction[2]}]

RECURSIVE FanOut(_, _, _, _)
\* notify: for (const handler of this.subscribers) handler(event), from the
\* i-th entry of the Set on. The loop walks the Set itself: an entry deleted
\* before it is reached is not visited, an entry added during the loop is.
FanOut(st, event, reacting, i) ==
  IF i > Len(st.subscribers) THEN st
  ELSE
    LET handler == st.subscribers[i]
        called == [st EXCEPT !.delivered[handler] = Append(@, event)]
        after == React(called, reacting[handler])
        next == IF handler \in Subscribed(after.subscribers)
                THEN 1 + CHOOSE k \in 1..Len(after.subscribers) :
                             after.subscribers[k] = handler
                ELSE i
    IN FanOut(after, event, reacting, next)

RECURSIVE FanOutAll(_, _, _, _)
\* the calls of notify of one call on the manager, from the k-th on
FanOutAll(st, events, reacting, k) ==
  IF k > Len(events) THEN st
  ELSE FanOutAll(FanOut(st, events[k], reacting, 1), events, reacting, k + 1)

\* clearParticipants() with handlers that react to the record
ClearParticipantsReacting(reacting) ==
  /\ \E m \in {clearParticipants(Mgr)} :
       /\ participants' = m.participants
       /\ stateMachines' = m.stateMachines
       /\ tableRadius' = m.tableRadius
       /\ participantCount' = m.participantCount
       /\ notes' = m.notes
       /\ \E st \in {FanOutAll([subscribers |-> subscribers,
                                unsubscribes |-> unsubscribes,
                                delivered |-> [h \in Handlers |-> <<>>]],
                               m.notes, reacting, 1)} :
            /\ subscribers' = st.subscribers
            /\ unsubscribes' = st.unsubscribes
            /\ delivered' = st.delivered
  /\ lastOp' = [op |-> "clearParticipants", removed |-> Len(participants),
                reacting |-> reacting, before |-> subscribers]
  /\ UNCHANGED <<outsideManager, scene, mock>>

NextFanOut ==
  \/ \E handler \in Handlers : Subscribe(handler)
  \/ \E handler \in Handlers : Unsubscribe(handler)
  \/ \E name \in AgentNames, role \in Roles : AddParticipant(name, role)
  \/ \E reacting \in [Handlers -> Reactions] : ClearParticipantsReacting(reacting)

FanOutSpec == Init /\ [][NextFanOut]_vars

\* ------------------------------------------- BoardroomScene2D, listening

\* Most portrait loads awaited at once.
MaxLoading == 2

\* portrait loads awaited by calls of addParticipant of the scene
RECURSIVE LoadingOf(_, _)
LoadingOf(sc, names) ==
  IF names = {} THEN 0
  ELSE LET n == CHOOSE x \in names : TRUE
       IN sc.loading[n] + LoadingOf(sc, names \ {n})

Loading(sc) == LoadingOf(sc, Names)

\* BoardroomScene2D.addParticipant up to await Assets.load(portraitPath)
sceneAddParticipant(sc, name) ==
  IF name \in DOMAIN sc.participants THEN sc
  ELSE [sc EXCEPT !.loading[name] = @ + 1]

\* BoardroomScene2D.addParticipant after the await: participants.set(name,
\* { ..., isSpeaking: false })
sceneAddParticipantLoaded(sc, name) ==
  [sc EXCEPT !.loading[name] = @ - 1,
             !.participants = [n \in DOMAIN @ \cup {name} |->
                                 IF n = name THEN FALSE ELSE @[n]]]

\* BoardroomScene2D.removeParticipant
sceneRemoveParticipant(sc, name) ==
  [sc EXCEPT !.participants = [n \in DOMAIN @ \ {name} |-> @[n]]]

\* BoardroomScene2D.clearParticipants: participants.clear(); a load that is
\* awaited stays awaited
sceneClearParticipants(sc) ==
  [sc EXCEPT !.participants = [n \in {} |-> FALSE]]

\* updateParticipantVisualState for the participant of a record, if the
\* scene has it
updateParticipantVisualState(sc, participant) ==
  IF participant.entity.name \in DOMAIN sc.participants
  THEN [sc EXCEPT !.participants[participant.entity.name] =
                     participant.state.isSpeaking]
  ELSE sc

RECURSIVE UpdateEach(_, _, _)
UpdateEach(sc, ps, i) ==
  IF i > Len(ps) THEN sc
  ELSE UpdateEach(updateParticipantVisualState(sc, ps[i]), ps, i + 1)

\* BoardroomScene2D.handleParticipantChange up to its first await
handleParticipantChange(sc, event) ==
  IF event.type = "added"
  THEN IF "participant" \in DOMAIN event
       THEN sceneAddParticipant(sc, event.participant.entity.name)
       ELSE sc
  ELSE IF event.type = "removed"
  THEN IF "participant" \in DOMAIN event
       THEN sceneRemoveParticipant(sc, event.participant.entity.name)
       ELSE sc
  ELSE IF event.type = "state_changed"
  THEN IF "participant" \in DOMAIN event
       THEN updateParticipantVisualState(sc, event.participant)
       ELSE IF "participants" \in DOMAIN event
       THEN UpdateEach(sc, event.participants, 1)
       ELSE sc
  ELSE IF event.type = "cleared"
  THEN sceneClearParticipants(sc)
  ELSE sc

RECURSIVE HandleEach(_, _, _)
\* the scene's handler called with the records of one call, in order
HandleEach(sc, events, i) ==
  IF i > Len(events) THEN sc
  ELSE HandleEach(handleParticipantChange(sc, events[i]), events, i + 1)

\* The manager's fields after a call, the scene listening.
BecomesSeen(m) ==
  /\ Changes(m)
  /\ scene' = HandleEach(scene, m.notes, 1)
  /\ UNCHANGED mock

AddParticipantSeen(name, role) ==
  /\ Has(participants, name) \/ participantCount < MaxCreated
  /\ Loading(scene) < MaxLoading
  /\ \E m \in {addParticipant(Mgr, [name |-> name, role |-> role])} :
       /\ BecomesSeen(m)
       /\ lastOp' = [op |-> "addParticipant", name |-> name,
                     existed |-> Has(participants, name), ret |-> m.ret[1]]
  /\ UNCHANGED outsideManager

RemoveParticipantSeen(name) ==
  /\ \E m \in {removeParticipant(Mgr, name)} :
       /\ BecomesSeen(m)
       /\ lastOp' = [op |-> "removeParticipant", name |-> name, ret |-> m.ret[1]]
  /\ UNCHANGED outsideManager

SetSpeakingSeen(name, turnType, roundNum) ==
  /\ \E m \in {setSpeaking(Mgr, name, turnType, roundNum)} : BecomesSeen(m)
  /\ lastOp' = [op |-> "setSpeaking", name |-> name,
                existed |-> Has(participants, name)]
  /\ UNCHANGED outsideManager

ClearParticipantsSeen ==
  /\ \E m \in {clearParticipants(Mgr)} : BecomesSeen(m)
  /\ lastOp' = [op |-> "clearParticipants", removed |-> Len(participants)]
  /\ UNCHANGED outsideManager

\* Assets.load settles, with the portrait or without: the call of
\* addParticipant that awaited it goes on.
PortraitLoaded(name) ==
  /\ scene.loading[name] > 0
  /\ scene' = sceneAddParticipantLoaded(scene, name)
  /\ lastOp' = [op |-> "portraitLoaded", name |-> name]
  /\ notes' = <<>>
  /\ delivered' = Deliver(subscribers, <<>>)
  /\ UNCHANGED <<participants, stateMachines, tableRadius, participantCount,
                 subscribers, unsubscribes, outsideManager, mock>>

NextScene ==
  \/ \E name \in AgentNames, role \in Roles : AddParticipantSeen(name, role)
  \/ \E name \in AgentNames : RemoveParticipantSeen(name)
  \/ \E name \in AgentNames : SetSpeakingSeen(name, "turn", <<>>)
  \/ SetSpeakingSeen(Null, Null, <<>>)
  \/ ClearParticipantsSeen
  \/ \E name \in AgentNames : PortraitLoaded(name)

\* The manager with the 2D scene subscribed to it.
SceneSpec == Init /\ [][NextScene]_vars

\* ------------------------------------------------------ MockEventSource2D

\* Most calls of startDemo.
MaxDemos == 3

\* Most turns of the demo in progress at once.
MaxTurns == 1

\* The last round in which a turn is started.
MaxRounds == 6

\* DEMO_PARTICIPANTS, its first two
DEMO_PARTICIPANTS == <<"Alice", "Bob">>

\* The round after which the demo completes the meeting.
LastDemoRound == 5

\* The round after which the meeting may converge.
FirstConvergingRound == 3

\* 60 + Math.random() * 30, the novelty at the start of a round
DemoNovelties == {60}

\* Math.random() * 3 in HUDController.setSpeaker
DemoRandomParts == {0}

\* What the mock works on: its own fields, the scene, the meeting state of the
\* scene and the metrics of the HUD; events are the routing keys dispatched
\* during the step, restarted whether resetAndRestart ran in it.
World ==
  [mock |-> mock, scene |-> scene, hud |-> Hud, meetingState |-> meetingState,
   events |-> <<>>, restarted |-> FALSE]

\* BoardroomScene2D.setSpeaking
sceneSetSpeaking(w, name, turnType) ==
  [w EXCEPT !.meetingState.speakingParticipant = name,
            !.meetingState.turnType = turnType,
            !.scene.participants = [n \in DOMAIN @ |-> n = name]]

\* handleEvent, the cases of the meeting that ends
Ended(w, status) ==
  LET updated == [w EXCEPT !.meetingState =
                     updateMeetingState(@, [status |-> status])]
      silent == sceneSetSpeaking(updated, Null, Null)
  IN [silent EXCEPT !.hud = setMeetingStatus(setSpeaker(@, Null, Null, 0), status)]

\* handleEvent (sync version)
handleEvent(w, routing_key, payload) ==
  IF routing_key = "theboard.meeting.created"
  THEN [w EXCEPT !.meetingState =
          updateMeetingState(@, [meetingId |-> payload.meeting_id,
                                 topic |-> payload.topic, status |-> "waiting",
                                 maxRounds |-> payload.max_rounds])]
  ELSE IF routing_key = "theboard.meeting.started"
  THEN [w EXCEPT !.meetingState =
          updateMeetingState(@, [status |-> "active", currentRound |-> 1])]
  ELSE IF routing_key = "theboard.participant.turn_started"
  THEN LET spoken == sceneSetSpeaking(w, payload.agent_name, payload.turn_type)
       IN [spoken EXCEPT
             !.meetingState =
                updateMeetingState(@, [currentRound |-> payload.round_num]),
             !.hud = setSpeaker(@, payload.agent_name, payload.turn_type,
                                payload.random)]
  ELSE IF routing_key = "theboard.participant.turn_completed"
  THEN [sceneSetSpeaking(w, Null, Null) EXCEPT
          !.hud = setSpeaker(@, Null, Null, 0)]
  ELSE IF routing_key = "theboard.meeting.round_completed"
  THEN [w EXCEPT !.meetingState =
          updateMeetingState(@, [currentRound |-> payload.round_num])]
  ELSE IF routing_key = "theboard.meeting.converged"
  THEN Ended(w, "converged")
  ELSE IF routing_key = "theboard.meeting.completed"
  THEN Ended(w, "completed")
  ELSE IF routing_key = "theboard.meeting.failed"
  THEN Ended(w, "failed")
  ELSE w

\* simulateEvent
simulateEvent(w, routing_key, payload) ==
  [handleEvent(w, routing_key, payload) EXCEPT
     !.events = Append(@, routing_key)]

\* startDemo: the timers it sets fire in the order of their delays, one
\* position in the script per call
startDemo(w) ==
  [w EXCEPT !.mock.scripts = Append(@, [step |-> "connected", index |-> 0]),
            !.mock.demos = @ + 1,
            !.mock.completed = 0]

\* stopDemo
stopDemo(w) ==
  IF w.mock.demoInterval
  THEN [w EXCEPT !.mock.demoInterval = FALSE, !.mock.intervals = @ - 1]
  ELSE w

\* startRounds: the interval that demoInterval held, if any, goes on
startRounds(w) ==
  [w EXCEPT !.mock.currentRound = 1,
            !.mock.participantIndex = 0,
            !.mock.demoInterval = TRUE,
            !.mock.intervals = @ + 1,
            !.mock.restarts = 0]

\* resetAndRestart
resetAndRestart(w) ==
  LET cleared == [w EXCEPT
                    !.scene = sceneClearParticipants(@),
                    !.hud = hudReset(@),
                    !.meetingState =
                       updateMeetingState(@, [status |-> "waiting", topic |-> "",
                                              currentRound |-> 0]),
                    !.mock.currentRound = 0,
                    !.mock.participantIndex = 0,
                    !.mock.restarts = @ + 1,
                    !.restarted = TRUE]
  IN startDemo(cleared)

\* the callback of the interval: a turn starts and its end is scheduled
Turn(w, random) ==
  IF w.mock.participantIndex + 1 > Len(DEMO_PARTICIPANTS) THEN w
  ELSE
    LET started ==
          simulateEvent(w, "theboard.participant.turn_started",
            [agent_name |-> DEMO_PARTICIPANTS[w.mock.participantIndex + 1],
             round_num |-> w.mock.currentRound,
             turn_type |-> IF w.mock.participantIndex = 0
                           THEN "turn" ELSE "response",
             random |-> random])
    IN [started EXCEPT !.mock.turns = @ + 1]

\* if (this.currentRound > 3 && Math.random() > 0.5)
Converge(w, converges) ==
  IF w.mock.currentRound > FirstConvergingRound /\ converges
  THEN LET said == simulateEvent(stopDemo(w), "theboard.meeting.converged",
                                 [round_num |-> w.mock.currentRound - 1])
       IN [said EXCEPT !.mock.completing = @ + 1, !.mock.restarting = @ + 1]
  ELSE w

\* if (this.currentRound > 5)
Complete(w) ==
  IF w.mock.currentRound > LastDemoRound
  THEN LET said == simulateEvent(stopDemo(w), "theboard.meeting.completed",
                                 [total_rounds |-> w.mock.currentRound - 1])
       IN [said EXCEPT !.mock.completed = @ + 1, !.mock.restarting = @ + 1]
  ELSE w

\* the callback that ends a turn
TurnEnd(w, novelty, converges) ==
  LET ended == simulateEvent(w, "theboard.participant.turn_completed",
                             [round_num |-> w.mock.currentRound])
      next == [ended EXCEPT !.mock.turns = @ - 1,
                            !.mock.participantIndex = @ + 1]
  IN IF next.mock.participantIndex >= Len(DEMO_PARTICIPANTS)
     THEN LET round == simulateEvent(next, "theboard.meeting.round_completed",
                                     [round_num |-> next.mock.currentRound])
              bumped == [round EXCEPT !.mock.currentRound = @ + 1,
                                      !.mock.participantIndex = 0,
                                      !.hud = setNovelty(@, novelty)]
          IN Complete(Converge(bumped, converges))
     ELSE next

\* the callback that completes a meeting that has converged
CompleteLater(w) ==
  LET said == simulateEvent(w, "theboard.meeting.completed",
                            [total_rounds |-> w.mock.currentRound - 1])
  IN [said EXCEPT !.mock.completing = @ - 1, !.mock.completed = @ + 1]

\* the script of startDemo and addParticipantsSequentially, one timer or
\* one awaited load at a time
Script(w, k) ==
  LET at == w.mock.scripts[k]
      To(v, step, index) ==
        [v EXCEPT !.mock.scripts[k] = [step |-> step, index |-> index]]
      Done(v) ==
        [v EXCEPT !.mock.scripts =
           SubSeq(@, 1, k - 1) \o SubSeq(@, k + 1, Len(@))]
      AfterAdd(v, index) ==
        IF index >= Len(DEMO_PARTICIPANTS) THEN To(v, "started", 0)
        ELSE To(v, "added", index + 1)
  IN IF at.step = "connected" THEN To(w, "created", 0)
     ELSE IF at.step = "created"
     THEN To(simulateEvent(w, "theboard.meeting.created",
                           [meeting_id |-> "demo-meeting-001", topic |-> "topic",
                            max_rounds |-> LastDemoRound]),
             "added", 1)
     ELSE IF at.step = "added"
     THEN LET name == DEMO_PARTICIPANTS[at.index]
              said == [w EXCEPT !.events =
                         Append(@, "theboard.participant.added")]
          IN IF name \in DOMAIN w.scene.participants
             THEN AfterAdd(said, at.index)
             ELSE To([said EXCEPT !.scene = sceneAddParticipant(@, name)],
                     "loading", at.index)
     ELSE IF at.step = "loading"
     THEN AfterAdd([w EXCEPT !.scene =
                      sceneAddParticipantLoaded(@, DEMO_PARTICIPANTS[at.index])],
                   at.index)
     ELSE IF at.step = "started"
     THEN To(simulateEvent(w, "theboard.meeting.started", [participant_count |->
                             Len(DEMO_PARTICIPANTS)]),
             "rounds", 0)
     ELSE Done(startRounds(w))

\* The mock's fields, the scene, the meeting state and the metrics after a
\* step of the mock.
WorldBecomes(w, op) ==
  /\ mock' = w.mock
  /\ scene' = w.scene
  /\ meetingState' = w.meetingState
  /\ HudBecomes(w.hud)
  /\ lastOp' = [op |-> op, events |-> w.events, restarted |-> w.restarted]

outsideMock ==
  <<participants, stateMachines, tableRadius, participantCount, notes, timers,
    subscribers, unsubscribes, delivered, machines, bloodbank, factory>>

\* startDemo(), called once by whoever created the source
StartDemo ==
  /\ mock.demos = 0
  /\ WorldBecomes(startDemo(World), "startDemo")
  /\ UNCHANGED outsideMock

\* stopDemo(), called from outside
StopDemo ==
  /\ mock.demos > 0
  /\ ~mock.stopped
  /\ WorldBecomes([stopDemo(World) EXCEPT !.mock.stopped = TRUE], "stopDemo")
  /\ UNCHANGED outsideMock

\* a timer of the script fires, or the portrait it awaits is loaded
ScriptStep(k) ==
  /\ k \in 1..Len(mock.scripts)
  /\ WorldBecomes(Script(World, k), "script")
  /\ UNCHANGED outsideMock

\* the interval fires; the turn it started the time before has ended by then
IntervalTick(random) ==
  /\ mock.intervals > 0
  /\ mock.turns < mock.intervals
  /\ mock.turns < MaxTurns
  /\ mock.currentRound <= MaxRounds
  /\ WorldBecomes(Turn(World, random), "interval")
  /\ UNCHANGED outsideMock

\* the timer that ends a turn fires
TurnTimeout(novelty, converges) ==
  /\ mock.turns > 0
  /\ WorldBecomes(TurnEnd(World, novelty, converges), "turnTimeout")
  /\ UNCHANGED outsideMock

\* the timer set on convergence for meeting.completed fires (2000 ms)
CompletedTimeout ==
  /\ mock.completing > 0
  /\ WorldBecomes(CompleteLater(World), "completedTimeout")
  /\ UNCHANGED outsideMock

\* a timer set for resetAndRestart fires (5000 or 6000 ms)
RestartTimeout ==
  /\ mock.restarting > 0
  /\ mock.completing = 0
  /\ mock.demos < MaxDemos
  /\ WorldBecomes([resetAndRestart(World) EXCEPT !.mock.restarting = @ - 1],
                  "restartTimeout")
  /\ UNCHANGED outsideMock

NextMock ==
  \/ StartDemo
  \/ StopDemo
  \/ \E k \in 1..MaxDemos : ScriptStep(k)
  \/ \E random \in DemoRandomParts : IntervalTick(random)
  \/ \E novelty \in DemoNovelties, converges \in BOOLEAN :
        TurnTimeout(novelty, converges)
  \/ CompletedTimeout
  \/ RestartTimeout

\* The demo of the mock event source.
MockSpec == Init /\ [][NextMock]_vars

\* ------------------------------------ participants that leave and come back

\* Two agents join, leave and join again: the factory counter runs past the
\* length of the colour list while at most two participants are seated.
NextPalette ==
  \/ \E name \in AgentNames, role \in Roles :
        AddParticipantWithin(name, role, MaxRecreated)
  \/ \E name \in AgentNames : RemoveParticipant(name)

PaletteSpec == Init /\ [][NextPalette]_vars

\* ------------------------------------------ calls on the manager, composed

Next ==
  \/ \E name \in Names, role \in Roles : AddParticipant(name, role)
  \/ \E name \in Names : RemoveParticipant(name)
  \/ \E name \in Names, turnType \in TurnTypes, roundNum \in OptRounds :
        SetSpeaking(name, turnType, roundNum)
  \/ SetSpeaking(Null, Null, <<>>)
  \/ ClearParticipants
  \/ \E radius \in Radii : SetTableRadius(radius)
  \/ \E name \in Names, roundNum \in Rounds : UpdateRoundActivity(name, roundNum)

Spec == Init /\ [][Next]_vars

\* ------------------------------------------------------------ properties

Speaking == {i \in 1..Len(participants) : participants[i].state.isSpeaking}

VisuallySpeaking ==
  {i \in 1..Len(participants) : participants[i].state.visual = "speaking"}

Listening ==
  {i \in 1..Len(participants) : participants[i].state.visual = "listening"}

NoteTypes == [i \in 1..Len(notes) |-> notes[i].type]

HasParticipant(note) == "participant" \in DOMAIN note

HasParticipants(note) == "participants" \in DOMAIN note

\* a = b as angles
SameAngle(a, b) == a.num * b.den = b.num * a.den

\* C1: after every call on the manager at most one participant has
\* isSpeaking = true and at most one has visual = 'speaking'.
C1_SingleSpeaker ==
  /\ Cardinality(Speaking) <= 1
  /\ Cardinality(VisuallySpeaking) <= 1

\* A second speaker was set while another one was speaking: the first one
\* listens now.
C1_Witness ==
  /\ lastOp.op = "setSpeaking"
  /\ Cardinality(Speaking) = 1
  /\ Listening # {}

\* C2: a timeout set by an earlier turn.completed that fires after a later
\* turn.completed was handled leaves the speaker of the later turn speaking.
C2_StaleClearSpared ==
  (lastOp.op = "timerFire" /\ lastOp.stale /\ lastOp.before # <<>>)
    => SpeakerName(participants) = lastOp.before

\* C3: a turn.completed that set a registered agent speaking is followed by
\* the firing of a clear, after which nobody is speaking.
C3_ClearEventuallyFires ==
  (lastOp.op = "turn.completed" /\ Speaking # {})
    ~> (lastOp.op = "timerFire" /\ getSpeakingParticipant(participants) = <<>>
        /\ Speaking = {})

\* The turn's own timeout fired and cleared its speaker.
C3_Witness ==
  /\ lastOp.op = "timerFire"
  /\ ~lastOp.stale
  /\ lastOp.before # <<>>
  /\ getSpeakingParticipant(participants) = <<>>

\* C4: lastActiveRound of a participant never decreases, and changes only in
\* a call that sets that participant speaking (setSpeaking, or the
\* turn.completed event that calls it).
C4_LastActiveRoundMonotonic ==
  [][\A n \in Names :
       (Has(participants, n) /\ Has(participants', n)) =>
         LET before == Get(participants, n).state.lastActiveRound
             after == Get(participants', n).state.lastActiveRound
         IN /\ after >= before
            /\ after # before =>
                 /\ lastOp'.op \in {"setSpeaking", "turn.completed"}
                 /\ lastOp'.name = n]_vars

\* C5: setSpeaking with a non-null id that is not in the registry changes no
\* participant and delivers no notification.
C5_UnknownSpeakerNoOp ==
  [][(lastOp'.op = "setSpeaking" /\ lastOp'.name # Null /\ ~lastOp'.existed)
       => (participants' = participants /\ notes' = <<>>)]_vars

\* C6: addParticipant with a name already in the registry returns the
\* participant that is there and changes nothing: not the count, the order,
\* the seats or any state, and no notification is delivered.
C6_AddIdempotent ==
  [][(lastOp'.op = "addParticipant" /\ lastOp'.existed)
       => /\ participants' = participants
          /\ stateMachines' = stateMachines
          /\ participantCount' = participantCount
          /\ lastOp'.ret = Get(participants, lastOp'.name)
          /\ notes' = <<>>]_vars

\* A speaking participant was added again, beside another one.
C6_Witness ==
  /\ lastOp.op = "addParticipant"
  /\ lastOp.existed
  /\ lastOp.ret.state.isSpeaking
  /\ Len(participants) >= 2

\* C7: with N >= 1 participants the i-th in insertion order (from 0) has
\* position.index = i and position.angle = 2*pi*i/N - pi/2.
C7_SeatsContiguous ==
  \A i \in 1..Len(participants) :
    /\ participants[i].position.index = i - 1
    /\ SameAngle(participants[i].position.angle,
                 [num |-> i - 1, den |-> Len(participants)])

\* The participant in the middle seat of three was removed.
C7_Witness ==
  /\ lastOp.op = "removeParticipant"
  /\ lastOp.ret
  /\ Len(participants) = 2
  /\ \E k \in 1..Len(notes) :
       notes[k].type = "removed" /\ notes[k].participant.position.index = 1

\* C8: a successful addParticipant delivers 'added' then 'position_changed',
\* a successful removeParticipant 'removed' then 'position_changed'.
C8_LifecycleThenPositions ==
  /\ (lastOp.op = "addParticipant" /\ ~lastOp.existed)
       => NoteTypes = <<"added", "position_changed">>
  /\ (lastOp.op = "removeParticipant" /\ lastOp.ret)
       => NoteTypes = <<"removed", "position_changed">>

\* C9: setSpeaking with a present id delivers one 'state_changed' carrying
\* only that participant, now speaking; with null it delivers one
\* 'state_changed' carrying only the full collection.
C9_StateChangedShape ==
  lastOp.op = "setSpeaking" =>
    /\ (lastOp.name # Null /\ lastOp.existed) =>
         /\ notes = <<[type |-> "state_changed",
                       participant |-> Get(participants, lastOp.name)]>>
         /\ notes[1].participant.state.isSpeaking
    /\ lastOp.name = Null =>
         notes = <<[type |-> "state_changed", participants |-> participants]>>

\* The speaker was cleared with null among several participants.
C9_Witness ==
  /\ lastOp.op = "setSpeaking"
  /\ lastOp.name = Null
  /\ Len(participants) >= 2
  /\ \E i \in 1..Len(participants) : participants[i].state.lastActiveRound > 0
  /\ Listening = {}
  /\ Len(notes) = 1

\* C10, as claimed: every record delivered has exactly one of participant
\* and participants.
C10_ExactlyOnePayload ==
  \A k \in 1..Len(notes) : HasParticipant(notes[k]) # HasParticipants(notes[k])

\* C10, amended: a record of type added, removed, state_changed or
\* position_changed has exactly one of participant and participants; a
\* 'cleared' record has neither.
C10_PayloadByType ==
  \A k \in 1..Len(notes) :
    IF notes[k].type = "cleared"
    THEN ~HasParticipant(notes[k]) /\ ~HasParticipants(notes[k])
    ELSE /\ notes[k].type \in {"added", "removed", "state_changed", "position_changed"}
         /\ HasParticipant(notes[k]) # HasParticipants(notes[k])
         /\ notes[k].type \in {"added", "removed"} => HasParticipant(notes[k])
         /\ notes[k].type = "position_changed" => HasParticipants(notes[k])

\* The registry was cleared and the factory counter reset.
C10_Witness ==
  /\ lastOp.op = "clearParticipants"
  /\ NoteTypes = <<"cleared">>
  /\ participants = <<>>
  /\ participantCount = 0

\* C11: after setSpeaking(null, null) no participant has isSpeaking = true,
\* every participant has turnType = null, and every participant's visual
\* state, and its state machine, is 'idle'.
C11_NullClearsEveryone ==
  (lastOp.op = "setSpeaking" /\ lastOp.name = Null) =>
    \A i \in 1..Len(participants) :
      /\ ~participants[i].state.isSpeaking
      /\ participants[i].state.turnType = Null
      /\ participants[i].state.visual = "idle"
      /\ stateMachines[participants[i].entity.name] = "idle"

\* setSpeaking(null, null) was called on three participants, each of which
\* has been active in round 1.
C11_Witness ==
  /\ lastOp.op = "setSpeaking"
  /\ lastOp.name = Null
  /\ Len(participants) = 3
  /\ \A i \in 1..Len(participants) : participants[i].state.lastActiveRound = 1
  /\ Speaking = {}
  /\ VisuallySpeaking = {}

\* C12: transition(to) from the state 'from' returns true and moves to 'to'
\* exactly when (from, to) is one of the nine edges; for every other pair it
\* returns false and the state stays 'from'.
C12_TransitionTable ==
  LET edges ==
        {<<"idle", "speaking">>, <<"idle", "listening">>, <<"idle", "thinking">>,
         <<"speaking", "idle">>, <<"speaking", "listening">>,
         <<"listening", "speaking">>, <<"listening", "idle">>,
         <<"thinking", "speaking">>, <<"thinking", "idle">>}
  IN lastOp.op = "transition" =>
       IF <<lastOp.from, lastOp.to>> \in edges
       THEN lastOp.ret /\ machines[lastOp.machine] = lastOp.to
       ELSE ~lastOp.ret /\ machines[lastOp.machine] = lastOp.from

\* transition('thinking') was refused to a machine that is speaking.
C12_Witness ==
  /\ lastOp.op = "transition"
  /\ lastOp.from = "speaking"
  /\ lastOp.to = "thinking"
  /\ ~lastOp.ret
  /\ machines[lastOp.machine] = "speaking"

\* C13: the function subscribe(handler) returned removes that handler and no
\* other, also when it is called again; a handler is in the Set again only
\* once it is subscribed again; and a call on the manager hands every record
\* it delivers to every handler in the Set, and none to a handler outside it.
C13_UnsubscribeExact ==
  [][/\ lastOp'.op = "unsubscribe" =>
          /\ Subscribed(subscribers') =
               Subscribed(subscribers) \ {lastOp'.handler}
          /\ \A j, k \in 1..Len(subscribers') :
               j < k <=> \E a, b \in 1..Len(subscribers) :
                            /\ a < b
                            /\ subscribers[a] = subscribers'[j]
                            /\ subscribers[b] = subscribers'[k]
     /\ \A h \in Handlers :
          (h \in Subscribed(subscribers') /\ h \notin Subscribed(subscribers))
            => (lastOp'.op = "subscribe" /\ lastOp'.handler = h)
     /\ lastOp'.op \notin {"subscribe", "unsubscribe"} =>
          \A h \in Handlers :
            delivered'[h] = IF h \in Subscribed(subscribers) THEN notes' ELSE <<>>
    ]_vars

\* A participant was added after the function subscribe('h1') returned was
\* called: 'h1' was handed nothing, 'h2' both records.
C13_Witness ==
  /\ lastOp.op = "addParticipant"
  /\ "h1" \in unsubscribes
  /\ subscribers = <<"h2">>
  /\ delivered["h1"] = <<>>
  /\ Len(delivered["h2"]) = 2
  /\ delivered["h2"] = notes

\* C14: clearParticipants empties the registry and delivers one 'cleared'
\* record and nothing else; the participant added next gets the colour the
\* first participant of a new registry gets.
C14_ClearResets ==
  [][/\ lastOp'.op = "clearParticipants" =>
          /\ participants' = <<>>
          /\ Len(participants') = 0
          /\ notes' = <<[type |-> "cleared"]>>
     /\ (lastOp.op = "clearParticipants" /\ lastOp'.op = "addParticipant") =>
          /\ lastOp'.ret.entity.color = 0
          /\ lastOp'.ret.entity.color =
               createParticipant([name |-> lastOp'.name, role |-> "Agent"],
                                 0).entity.color
    ]_vars

\* Three participants were cleared away.
C14_Witness ==
  /\ lastOp.op = "clearParticipants"
  /\ lastOp.removed = 3
  /\ participants = <<>>
  /\ participantCount = 0
  /\ Len(notes) = 1

\* C15: after n recordings the novelty history has length min(n, 10) and
\* holds the last min(n, 10) levels recorded, in the order they came, each
\* clamped to [0, 100].
C15_HistoryIsLastTen ==
  LET n == Len(recorded)
      k == IF n < 10 THEN n ELSE 10
      clamped(v) == IF v < 0 THEN 0 ELSE IF v > 100 THEN 100 ELSE v
  IN /\ Len(noveltyHistory) = k
     /\ \A j \in 1..k : noveltyHistory[j] = clamped(recorded[n - k + j])

\* An eleventh level, above 100, was recorded on a full history whose oldest
\* value, recorded above 100, differed from the second oldest, recorded
\* below 0.
C15_Witness ==
  /\ lastOp.op = "setNovelty"
  /\ Len(recorded) = 11
  /\ recorded[1] > 100
  /\ recorded[2] < 0
  /\ noveltyHistory[1] = 0
  /\ noveltyHistory[10] = 100
  /\ recorded[11] > 100

\* C16: right after a recording, consensus = clamp(100 - mean of the
\* history, 0, 100), a value in [0, 100].
C16_ConsensusFromMean ==
  (\/ lastOp.op \in {"setNovelty", "reset"}
   \/ (lastOp.op = "setSpeaker" /\ lastOp.named)) =>
    LET n == Len(noveltyHistory)
        s == Sum(noveltyHistory)
        c == consensusLevel
    IN /\ n > 0
       /\ c.den > 0
       /\ 0 <= c.num /\ c.num <= 100 * c.den
       /\ IF 100 * n - s < 0 THEN c.num = 0
          ELSE IF 100 * n - s > 100 * n THEN c.num = 100 * c.den
          ELSE c.num * n = (100 * n - s) * c.den

\* Three levels were recorded, the last by setNovelty, and their mean is not
\* a whole number: 100 - (45 + 0 + 100) / 3 = 155 / 3.
C16_Witness ==
  /\ lastOp.op = "setNovelty"
  /\ noveltyHistory = <<45, 0, 100>>
  /\ consensusLevel = [num |-> 155, den |-> 3]

\* C17: after reset() novelty is 50, consensus is 0 and the novelty history
\* is empty.
C17_ResetDefaults ==
  lastOp.op = "reset" =>
    /\ noveltyLevel = 50
    /\ consensusLevel.num = 0
    /\ noveltyHistory = <<>>

\* C18: setMeetingStatus('converged') sets consensus to 100 and leaves the
\* novelty history and the novelty level as they were.
C18_ConvergedOnlyConsensus ==
  [][(lastOp'.op = "setMeetingStatus" /\ lastOp'.status = "converged") =>
       /\ consensusLevel'.num = 100 * consensusLevel'.den
       /\ noveltyHistory' = noveltyHistory
       /\ noveltyLevel' = noveltyLevel
       /\ recorded' = recorded]_vars

\* One level was recorded, and consensus was 55, when the meeting converged.
C18_Witness ==
  /\ lastOp.op = "setMeetingStatus"
  /\ lastOp.status = "converged"
  /\ noveltyHistory = <<45>>
  /\ noveltyLevel = 45
  /\ consensusLevel = [num |-> 100, den |-> 1]

\* C19: once the converged event has forced consensus to 100 it stays 100
\* through every later event; the metrics are not reset while the status of
\* the meeting is 'converged'.
C19_ConvergedStays ==
  meetingState.status = "converged" =>
    consensusLevel.num = 100 * consensusLevel.den

\* C20: handling an event of a type that has no case changes neither the
\* registry nor the state machines, the meeting state, the novelty history,
\* the novelty level or consensus; no record is delivered and no timeout is
\* set.
C20_UnknownEventIgnored ==
  [][lastOp'.op = "unhandled" =>
       /\ participants' = participants
       /\ stateMachines' = stateMachines
       /\ participantCount' = participantCount
       /\ tableRadius' = tableRadius
       /\ meetingState' = meetingState
       /\ noveltyHistory' = noveltyHistory
       /\ noveltyLevel' = noveltyLevel
       /\ consensusLevel' = consensusLevel
       /\ notes' = <<>>
       /\ \A h \in Handlers : delivered'[h] = <<>>
       /\ timers' = timers]_vars

\* An event of an unknown type was handled in an active meeting while a
\* participant was speaking, a timeout was outstanding and a level was
\* recorded.
C20_Witness ==
  /\ lastOp.op = "unhandled"
  /\ meetingState.status = "active"
  /\ Speaking # {}
  /\ timers > 0
  /\ noveltyHistory # <<>>

\* C21: a turn.completed event whose payload lacks agent_name leaves the
\* registry's speaking state (the participants with their turn types and
\* visual states, and their state machines) as it was and schedules no
\* clear of the speaker.
C21_MissingNameSkipsSpeaker ==
  [][(lastOp'.op = "turn.completed" /\ lastOp'.name = Null)
       => /\ participants' = participants
          /\ stateMachines' = stateMachines
          /\ timers' = timers]_vars

\* C22: handling a round_completed event whose payload lacks avg_novelty
\* leaves the novelty history, the novelty level and consensus as they were,
\* and sets currentRound to the payload's round_num.
C22_MissingNoveltySkipsMetrics ==
  [][\A round_num \in Rounds :
       RoundCompleted(round_num, <<>>)
         => /\ noveltyHistory' = noveltyHistory
            /\ noveltyLevel' = noveltyLevel
            /\ consensusLevel' = consensusLevel
            /\ meetingState'.currentRound = round_num]_vars

\* C23: handling a round_completed event with round_num r and novelty v,
\* v = 0 included, sets currentRound to r and records exactly one sample,
\* the last of the history, equal to v on the 0..100 scale.
C23_RoundRecordsItsNovelty ==
  [][\A round_num \in Rounds, avg_novelty \in OptAvgNovelty \ {<<>>} :
       RoundCompleted(round_num, avg_novelty)
         => /\ meetingState'.currentRound = round_num
            /\ Len(recorded') = Len(recorded) + 1
            /\ noveltyHistory' # <<>>
            /\ noveltyHistory'[Len(noveltyHistory')] = avg_novelty[1]]_vars

\* C24: right after a turn.completed event for an agent X of the registry,
\* with turn_type t and round_num r, X is the only participant speaking,
\* X.turnType is t ('turn' when the payload has no turn_type),
\* X.lastActiveRound is r and X.visual is 'speaking'.
C24_TurnMakesTheSpeaker ==
  (lastOp.op = "turn.completed" /\ lastOp.existed /\ lastOp.round_num # <<>>)
    => LET i == IndexOf(participants, lastOp.name)
           x == participants[i].state
       IN /\ Speaking = {i}
          /\ x.turnType = IF lastOp.turn_type = <<>> THEN "turn"
                          ELSE lastOp.turn_type[1]
          /\ x.lastActiveRound = lastOp.round_num[1]
          /\ x.visual = "speaking"

\* created, started[Alice, Bob], turn.completed(Alice): two participants at
\* seats 0 and 1, Alice speaking.
C24_Witness ==
  /\ lastOp.op = "turn.completed"
  /\ lastOp.name = "Alice"
  /\ lastOp.existed
  /\ Len(participants) = 2
  /\ participants[1].entity.name = "Alice"
  /\ participants[1].position.index = 0
  /\ participants[2].position.index = 1
  /\ Speaking = {1}
  /\ participants[1].state.visual = "speaking"
  /\ meetingState.status = "active"
  /\ meetingState.topic = "topic"

\* C25: at most one clear of the speaker scheduled by the event source is
\* outstanding at any time.
C25_AtMostOneClearOutstanding == timers <= 1

\* C26: while the event source is torn down (disconnect() has returned and
\* connect() was not called again, so it has no client), no clear of the
\* speaker scheduled by an earlier turn fires, and the registry and the HUD
\* metrics stay as they are.
C26_NoClearAfterDisconnect ==
  [][~bloodbank.client
       => /\ lastOp'.op # "timerFire"
          /\ UNCHANGED <<participants, stateMachines, hudVars>>]_vars

\* C27: after a meeting.created event with topic T and max_rounds M, from
\* any state, the meeting state has topic T, maxRounds M and status
\* 'waiting', the registry is empty and exactly one 'cleared' record was
\* delivered.
C27_CreatedStartsAfresh ==
  [][\A meeting_id \in MeetingIds, T \in MeetingTopics,
        M \in MeetingRoundLimits :
       MeetingCreated(meeting_id, T, M)
         => /\ meetingState'.topic = T
            /\ meetingState'.maxRounds = M
            /\ meetingState'.status = "waiting"
            /\ Len(participants') = 0
            /\ Cardinality({i \in 1..Len(notes') :
                              notes'[i].type = "cleared"}) = 1]_vars

\* A second meeting was created after the first one had started: the round
\* of the first meeting is still there, its participants are gone.
C27_Witness ==
  /\ lastOp.op = "meeting.created"
  /\ meetingState.topic = "agenda"
  /\ meetingState.maxRounds = 5
  /\ meetingState.status = "waiting"
  /\ meetingState.currentRound = 1
  /\ participants = <<>>
  /\ notes = <<[type |-> "cleared"]>>

C29_TerminalEventEndsTheTurn ==
  lastOp.op = "meeting.ended"
    => /\ meetingState.status = lastOp.status
       /\ \A i \in 1..Len(participants) : ~participants[i].state.isSpeaking

\* The meeting failed while Bob was speaking and the clear of his turn was
\* still to come.
C29_Witness ==
  /\ lastOp.op = "meeting.ended"
  /\ lastOp.status = "failed"
  /\ lastOp.before = <<"Bob">>
  /\ timers > 0
  /\ meetingState.status = "failed"
  /\ Speaking = {}

\* C30: createEventSource returns exactly one source: the mock source when
\* called with type 'mock' or, in auto mode, without a Bloodbank URL; in auto
\* mode with a URL, the Bloodbank source if the connection is established
\* when connectionTimeout elapses, and the mock source if it is not.
C30_ReturnsOneSource ==
  /\ factory.pc = "returned" <=> factory.source \in {"mock", "bloodbank"}
  /\ (factory.pc = "returned" /\ factory.type = "mock")
       => factory.source = "mock"
  /\ (factory.pc = "returned" /\ factory.type = "auto"
        /\ factory.bloodbankUrl = "")
       => factory.source = "mock"
  /\ (lastOp.op = "connectionTimeout" /\ lastOp.connected)
       => factory.source = "bloodbank"
  /\ (lastOp.op = "connectionTimeout" /\ ~lastOp.connected)
       => factory.source = "mock"

\* C31 as stated: any two participants that are in the registry at the same
\* time have different colours.
C31_ColorsUnique ==
  \A i, j \in 1..Len(participants) :
    i # j => participants[i].entity.color # participants[j].entity.color

\* C31: while the factory has created no more participants than its colour
\* list has entries (since construction or the last clear), any two
\* participants in the registry have different colours.
C31_ColorsUniqueWithinPalette ==
  participantCount <= NumColors
    => \A i, j \in 1..Len(participants) :
         i # j => participants[i].entity.color # participants[j].entity.color

\* The eighth participant created sits with the first one: the first and
\* the last colour of the list.
C31_Witness ==
  /\ participantCount = NumColors
  /\ Len(participants) = 2
  /\ participants[1].entity.color = 0
  /\ participants[2].entity.color = NumColors - 1

\* C32: a call setSpeaking(id, ...) for a participant id of the registry
\* leaves every other participant with isSpeaking false and turnType null;
\* the participant that spoke before the call, if it is not id, is
\* 'listening'; every participant that is neither id nor the one that spoke
\* keeps the visual state it had.
C32_SetSpeakingFrame ==
  [][(lastOp'.op = "setSpeaking" /\ lastOp'.existed)
       => \A i \in 1..Len(participants) :
            participants[i].entity.name # lastOp'.name
              => /\ participants'[i].entity.name = participants[i].entity.name
                 /\ ~participants'[i].state.isSpeaking
                 /\ participants'[i].state.turnType = Null
                 /\ participants'[i].state.visual =
                      IF participants[i].state.isSpeaking THEN "listening"
                      ELSE participants[i].state.visual]_vars

\* Of three participants one speaks, one spoke before and listens, and one
\* never spoke and is idle.
C32_Witness ==
  /\ lastOp.op = "setSpeaking"
  /\ lastOp.existed
  /\ Len(participants) = 3
  /\ \E i, j, k \in 1..3 :
       /\ participants[i].entity.name = lastOp.name
       /\ participants[i].state.isSpeaking
       /\ participants[j].state.visual = "listening"
       /\ participants[j].state.lastActiveRound = 1
       /\ participants[k].state.visual = "idle"
       /\ participants[k].state.lastActiveRound = 0

\* C33: handling participant.turn.completed, the clear of the speaker that
\* follows it, participant.added, meeting.started, meeting.completed or
\* meeting.failed leaves the novelty history, the novelty level and
\* consensus as they were.
C33_OnlyRoundsMoveMetrics ==
  [][(\/ lastOp'.op \in {"turn.completed", "timerFire", "participant.added",
                         "meeting.started"}
      \/ /\ lastOp'.op = "meeting.ended"
         /\ lastOp'.status \in {"completed", "failed"})
       => UNCHANGED <<noveltyHistory, noveltyLevel, consensusLevel>>]_vars

\* C34: whatever the handlers do while a record is fanned out (unsubscribe
\* themselves or another handler, subscribe a handler), every handler that
\* was subscribed when the notification began is handed the record exactly
\* once, and a handler that was not is not handed it.
C34_FanOutOnSnapshot ==
  (lastOp.op = "clearParticipants" /\ "reacting" \in DOMAIN lastOp)
    => \A h \in Handlers :
         delivered[h] = IF h \in Subscribed(lastOp.before) THEN notes ELSE <<>>

\* C35: a subscriber that keeps a speaking flag per participant from the
\* state_changed records alone, as the 2D scene does, marks at most one
\* participant as speaking after every notification, and each flag equals the
\* registry's isSpeaking of that participant.
C35_SceneHasOneSpeaker ==
  /\ Cardinality({n \in DOMAIN scene.participants : scene.participants[n]}) <= 1
  /\ \A i \in 1..Len(participants) :
       participants[i].entity.name \in DOMAIN scene.participants =>
         scene.participants[participants[i].entity.name]
           = participants[i].state.isSpeaking

\* C36: once no call of the scene's addParticipant is still awaiting its
\* portrait, the names in the scene's map are the names in the registry.
C36_SceneFollowsRegistry ==
  Loading(scene) = 0 => DOMAIN scene.participants = NamesOf(participants)

\* C37: in every state of the manager each participant has exactly one
\* state machine, kept under its name, the participant's visual state is the
\* state of that machine, isSpeaking is true exactly when the visual state
\* is 'speaking', and turnType is set for a speaker only.
C37_VisualFollowsMachine ==
  /\ DOMAIN stateMachines = NamesOf(participants)
  /\ \A i, j \in 1..Len(participants) :
       participants[i].entity.name = participants[j].entity.name => i = j
  /\ \A i \in 1..Len(participants) :
       /\ participants[i].state.visual
            = stateMachines[participants[i].entity.name]
       /\ participants[i].state.isSpeaking
            <=> participants[i].state.visual = "speaking"
       /\ participants[i].state.turnType # Null
            => participants[i].state.isSpeaking

\* setSpeaking moved the speaker to another participant: one listens, the
\* other speaks, and a third one was never touched.
C37_Witness ==
  /\ lastOp.op = "setSpeaking"
  /\ lastOp.existed
  /\ Len(participants) = 3
  /\ Cardinality(Speaking) = 1
  /\ Cardinality(Listening) = 1
  /\ \E i \in 1..Len(participants) : participants[i].state.visual = "idle"

\* C38: once stopDemo() has been called, wherever the script was, the mock
\* dispatches no simulated event any more and does not restart the demo.
C38_StopDemoStops ==
  (mock.stopped /\ lastOp.op # "stopDemo")
    => (lastOp.events = <<>> /\ ~lastOp.restarted)

\* C39: a meeting of the demo is completed at most once and restarted at
\* most once, and at most one round interval is active.
C39_MeetingEndsOnce ==
  /\ mock.completed <= 1
  /\ mock.restarts <= 1
  /\ mock.restarting <= 1
  /\ mock.intervals <= 1

\* C40: once createEventSource has returned the mock source, the Bloodbank
\* source it gave up hands no event to the ParticipantManager or the HUD.
C40_AbandonedSourceSilent ==
  factory.source = "mock"
    => lastOp.op \notin {"meeting.started", "turn.completed"}

====
